---- MODULE Spec2Model ----
(***************************************************************************)
(* Model of ego4d/research/dataset.py (VideoDataset, the lazy concatenated *)
(* index) and of ego4d/internal/validation/types.py (default_decode,       *)
(* load_dataclass_dict_from_csv, load_manifest, load_egoexo_manifest).     *)
(*                                                                         *)
(* Four specifications share the variables:                                *)
(*   Spec          a VideoDataset after construction, under __getitem__    *)
(*   SpecCsv       one run of load_dataclass_dict_from_csv, row by row     *)
(*   SpecManifest  one run of load_manifest / load_egoexo_manifest         *)
(*   SpecDecode    one call of default_decode on a cell of a record field  *)
(* The variables of the components a specification does not run stay at    *)
(* their idle values.                                                      *)
(***************************************************************************)
EXTENDS Integers, Sequences, FiniteSets, TLC

VARIABLES
    \* ---- VideoDataset (dataset.py) ----
    paths,          \* self.paths: the sorted path list (0-based position c is paths[c+1])
    conts,          \* self.conts: position -> [p, c]; c = None or a handle
    fs_cumsum,      \* self.fs_cumsum: the cumulative offset table (fs_cumsum[c+1] is entry c)
    ds_mode,        \* "eager" (paths_to_n_frames is None) or "precomputed"
    max_num_frames_per_video, \* 0 stands for None (and for 0: both are falsy at line 92)
    n_frames,       \* path -> item count: len(video_class(p)) and paths_to_n_frames[p]
    opens,          \* position -> number of video_class(p, ...) constructions so far
    served,         \* positions that own an index a __getitem__ call has returned an item for
    last,           \* outcome of the most recent __getitem__ call
    \* ---- load_dataclass_dict_from_csv (types.py) ----
    csv_pc,         \* "idle", "header", "rows", "done"
    csv_args,       \* [dataclass_class, dict_key_field, unique_per_key]
    csv_file,       \* [n_lines, header, lines]: the lines the reader has yielded so far
    csv_loader,     \* [column_index, output]: the locals of the loader
    csv_result,     \* what the call gave its caller: nothing yet, a table or an error
    \* ---- load_manifest / load_egoexo_manifest (types.py) ----
    mf_pc,          \* 0 when idle, else the position of the table handled next
    mf_schema,      \* "core" or "egoexo"
    available_files,\* ls_relative(manifest_dir)
    mf_loaded,      \* manifest field -> what the assembler's local variable for it holds
    mf_reads,       \* the files opened so far, in order, with their content
    mf_result,      \* nothing yet, the manifest or the error
    \* ---- default_decode (types.py) ----
    decoding        \* [cls, field, datatype, value, called, result]: one call

ds_vars == <<paths, conts, fs_cumsum, ds_mode, max_num_frames_per_video, n_frames,
             opens, served, last>>
csv_vars == <<csv_pc, csv_args, csv_file, csv_loader, csv_result>>
mf_vars == <<mf_pc, mf_schema, available_files, mf_loaded, mf_reads, mf_result>>
dec_vars == <<decoding>>
vars == <<ds_vars, csv_vars, mf_vars, dec_vars>>

\* ---------------------------------------------------------------------------
\* Bounds
\* ---------------------------------------------------------------------------
MaxConts == 3        \* at most this many container paths
MaxFrames == 2       \* at most this many items in a container
MaxCap == 1          \* max_num_frames_per_video ranges over None, 1..MaxCap
MaxOutOfRange == 2   \* __getitem__ is called with -MaxOutOfRange <= i < len + MaxOutOfRange
MaxRows == 3         \* a CSV file has at most this many data rows

\* The sizes of the worked example of the specification, in sorted-path order.
ExampleSizes == <<3, 5, 2>>

\* ---------------------------------------------------------------------------
\* Python values
\* ---------------------------------------------------------------------------
None == 0            \* an absent handle; handles are the positive integers

Range(s) == {s[k] : k \in DOMAIN s}

Min(a, b) == IF a < b THEN a ELSE b

\* ---------------------------------------------------------------------------
\* VideoDataset.__init__
\* ---------------------------------------------------------------------------
\* sorted(paths), by insertion; a path is modelled by its rank in the
\* lexicographic order, so the order on paths is the order on integers.
RECURSIVE insort(_, _)
insort(s, x) ==
    IF s = <<>> THEN <<x>>
    ELSE IF x < s[1] THEN <<x>> \o s
    ELSE <<s[1]>> \o insort(Tail(s), x)

RECURSIVE sorted(_)
sorted(s) == IF s = <<>> THEN <<>> ELSE insort(sorted(Tail(s)), s[1])

\* torch.cumsum(torch.tensor(xs), dim=0).tolist()
RECURSIVE cumsum_from(_, _)
cumsum_from(xs, acc) ==
    IF xs = <<>> THEN <<>>
    ELSE <<acc + xs[1]>> \o cumsum_from(Tail(xs), acc + xs[1])

CumsumForgotten(xs) == xs

cumsum(xs) == cumsum_from(xs, 0)

\* len(ct) capped as in lines 90-94: min(len(ct), max) if max else len(ct)
EagerCount(len_ct, max_frames) ==
    IF max_frames # 0 THEN Min(len_ct, max_frames) ELSE len_ct

\* the per-container counts the table is built from, lines 90-94 and 97-99
Counts(ps, mode, max_frames, frames) ==
    IF mode = "eager"
    THEN [k \in 1..Len(ps) |-> EagerCount(frames[ps[k]], max_frames)]
    ELSE [k \in 1..Len(ps) |-> frames[ps[k]]]

\* [0] + cumsum(counts), lines 95 and 100
CumulativeTable(counts) == <<0>> \o cumsum(counts)

\* self.conts as built eagerly (lines 80-83): every container is opened
EagerConts(ps) == [idx \in 0..(Len(ps) - 1) |-> [p |-> ps[idx + 1], c |-> 1]]

\* self.conts as built from paths_to_n_frames (lines 101-104): none is opened
PrecomputedContsOpened(ps) == [idx \in 0..(Len(ps) - 1) |-> [p |-> ps[idx + 1], c |-> 1]]

PrecomputedConts(ps) == [idx \in 0..(Len(ps) - 1) |-> [p |-> ps[idx + 1], c |-> None]]

InitialConts(ps, mode) ==
    IF mode = "eager" THEN EagerConts(ps) ELSE PrecomputedConts(ps)

\* video_class constructions made by __init__, per position
InitialOpens(cs) == [idx \in DOMAIN cs |-> IF cs[idx].c = None THEN 0 ELSE 1]

\* __len__, lines 117-118
length(cum) == cum[Len(cum)]

\* ---------------------------------------------------------------------------
\* VideoDataset.__getitem__
\* ---------------------------------------------------------------------------
\* bisect.bisect_left(a, x): the first 0-based position whose entry is >= x
RECURSIVE bisect_left_loop(_, _, _, _)
bisect_left_loop(a, x, lo, hi) ==
    IF lo < hi
    THEN LET mid == (lo + hi) \div 2
         IN  IF a[mid + 1] < x
             THEN bisect_left_loop(a, x, mid + 1, hi)
             ELSE bisect_left_loop(a, x, lo, mid)
    ELSE lo

bisect_left(a, x) == bisect_left_loop(a, x, 0, Len(a))

\* bisect.bisect_right(a, x): the first 0-based position whose entry is > x
RECURSIVE bisect_right_loop(_, _, _, _)
bisect_right_loop(a, x, lo, hi) ==
    IF lo < hi
    THEN LET mid == (lo + hi) \div 2
         IN  IF x < a[mid + 1]
             THEN bisect_right_loop(a, x, lo, mid)
             ELSE bisect_right_loop(a, x, mid + 1, hi)
    ELSE lo

ContIdxBisectRight(cum, i) == bisect_right_loop(cum, i + 1, 0, Len(cum)) - 1

\* line 108
ContIdx(cum, i) == bisect_left(cum, i + 1) - 1

\* a sequence-like lookup, where a negative position counts from the end
LookupFromEnd(cs, cont_idx) ==
    LET n == Cardinality(DOMAIN cs)
        k == IF cont_idx < 0 THEN cont_idx + n ELSE cont_idx
    IN  [found |-> k \in DOMAIN cs, key |-> k]

\* self.conts[cont_idx], line 109: conts is a dict keyed by 0..n-1, and a
\* key it does not hold raises KeyError
Lookup(cs, cont_idx) == [found |-> cont_idx \in DOMAIN cs, key |-> cont_idx]

NeedsOpenAlways(c) == TRUE

\* line 110
NeedsOpen(c) == c = None

\* line 114
LocalIdx(cum, cont_idx, i) == i - cum[cont_idx + 1]

\* c[idx] of the container opened at path p: its items are <<p, 0>>, <<p, 1>>, ...
ContainerItem(p, idx, frames) ==
    IF 0 <= idx /\ idx < frames[p]
    THEN [status |-> "ok", item |-> <<p, idx>>]
    ELSE [status |-> "IndexError", item |-> <<>>]

NoCall ==
    [status |-> "none", i |-> 0, cont_idx |-> 0, idx |-> 0, c |-> None,
     opened |-> FALSE, item |-> <<>>]

dsIdle ==
    /\ paths = <<>>
    /\ conts = <<>>
    /\ fs_cumsum = <<0>>
    /\ ds_mode = "idle"
    /\ max_num_frames_per_video = 0
    /\ n_frames = <<>>
    /\ opens = <<>>
    /\ served = {}
    /\ last = NoCall

csvIdle ==
    /\ csv_pc = "idle"
    /\ csv_args = <<>>
    /\ csv_file = <<>>
    /\ csv_loader = <<>>
    /\ csv_result = <<>>

mfIdle ==
    /\ mf_pc = 0
    /\ mf_schema = "idle"
    /\ available_files = {}
    /\ mf_loaded = <<>>
    /\ mf_reads = <<>>
    /\ mf_result = <<>>

decIdle ==
    decoding = [cls |-> "", field |-> "", datatype |-> "", value |-> "", called |-> FALSE,
           result |-> [t |-> "None", s |-> "", n |-> 0]]

\* the state __init__ leaves, lines 70-104 (the breakpoint() of line 75 is
\* taken to be continued, so that the eager construction completes)
Constructed(input_paths, mode, max_frames, frames) ==
    /\ paths = sorted(input_paths)
    /\ ds_mode = mode
    /\ max_num_frames_per_video = max_frames
    /\ n_frames = frames
    /\ fs_cumsum = CumulativeTable(Counts(paths, mode, max_frames, frames))
    /\ conts = InitialConts(paths, mode)
    /\ opens = InitialOpens(conts)
    /\ served = {}
    /\ last = NoCall

\* the path lists of n distinct paths, in any order
PathLists(n) == {s \in [1..n -> 1..n] : \A j, k \in 1..n : s[j] = s[k] => j = k}

InitBounded ==
    \E n \in 0..MaxConts :
    \E input_paths \in PathLists(n) :
    \E frames \in [1..n -> 0..MaxFrames] :
    \E mode \in {"eager", "precomputed"} :
    \E max_frames \in 0..MaxCap :
        Constructed(input_paths, mode, max_frames, frames)

InitExample ==
    \E input_paths \in PathLists(Len(ExampleSizes)) :
    \E mode \in {"eager", "precomputed"} :
        Constructed(input_paths, mode, 0, ExampleSizes)

Init ==
    /\ InitBounded \/ InitExample
    /\ csvIdle
    /\ mfIdle
    /\ decIdle

\* __getitem__(i) with a position self.conts holds, lines 107-115
GetItem(i) ==
    LET cont_idx == ContIdx(fs_cumsum, i)
        look == Lookup(conts, cont_idx)
    IN  /\ look.found
        /\ LET key == look.key
               p == conts[key].p
               open == NeedsOpen(conts[key].c)
               c == IF open THEN opens[key] + 1 ELSE conts[key].c
               idx == LocalIdx(fs_cumsum, key, i)
               got == ContainerItem(p, idx, n_frames)
           IN  /\ conts' = IF open THEN [conts EXCEPT ![key] = [p |-> p, c |-> c]]
                           ELSE conts
               /\ opens' = IF open THEN [opens EXCEPT ![key] = @ + 1] ELSE opens
               /\ served' = IF got.status = "ok" THEN served \cup {key} ELSE served
               /\ last' = [status |-> got.status, i |-> i, cont_idx |-> key,
                           idx |-> idx, c |-> c, opened |-> open, item |-> got.item]
        /\ UNCHANGED <<paths, fs_cumsum, ds_mode, max_num_frames_per_video, n_frames>>
        /\ UNCHANGED <<csv_vars, mf_vars, dec_vars>>

\* __getitem__(i) with a position self.conts does not hold: KeyError at line 109
GetItemKeyError(i) ==
    LET cont_idx == ContIdx(fs_cumsum, i)
        look == Lookup(conts, cont_idx)
    IN  /\ ~look.found
        /\ last' = [status |-> "KeyError", i |-> i, cont_idx |-> cont_idx,
                    idx |-> 0, c |-> None, opened |-> FALSE, item |-> <<>>]
        /\ UNCHANGED <<paths, conts, fs_cumsum, ds_mode, max_num_frames_per_video,
                       n_frames, opens, served>>
        /\ UNCHANGED <<csv_vars, mf_vars, dec_vars>>

\* the indices __getitem__ is called with
Indices == (0 - MaxOutOfRange)..(length(fs_cumsum) - 1 + MaxOutOfRange)

Next ==
    \/ \E i \in Indices : GetItem(i)
    \/ \E i \in Indices : GetItemKeyError(i)

Spec == Init /\ [][Next]_vars

\* ---------------------------------------------------------------------------
\* Record schemas: dataclasses.fields(cls) as <<name, type>> in declaration order
\* ---------------------------------------------------------------------------
F(name, type) == [name |-> name, type |-> type]

Fields(cls) ==
    CASE cls = "Device" ->
           <<F("device_id", "int"), F("name", "str")>>
      [] cls = "VideoMetadata" ->
           <<F("university_video_id", "str"), F("university_video_folder_path", "str"),
             F("number_video_components", "int"), F("start_date_recorded_utc", "datetime"),
             F("recording_participant_id", "str"), F("device_id", "int"),
             F("video_device_settings", "dict"), F("physical_setting_id", "str"),
             F("video_scenario_ids", "List[int]")>>
      [] cls = "VideoComponentFile" ->
           <<F("university_video_id", "str"), F("video_component_relative_path", "str"),
             F("component_index", "int"), F("is_redacted", "bool"),
             F("start_date_recorded_utc", "datetime"), F("compression_settings", "dict"),
             F("includes_audio", "bool"), F("component_metadata", "dict"),
             F("deidentification_metadata", "dict")>>
      [] cls = "AuxiliaryVideoComponentDataFile" ->
           <<F("university_video_id", "str"), F("component_index", "int"),
             F("component_type_id", "int"), F("video_component_relative_path", "str")>>
      [] cls = "Particpant" ->
           <<F("participant_id", "str"), F("participant_metadata", "dict")>>
      [] cls = "SynchronizedVideos" ->
           <<F("video_grouping_id", "str"), F("synchronization_metadata", "dict"),
             F("associated_videos", "dict")>>
      [] cls = "PhysicalSetting" ->
           <<F("setting_id", "str"), F("name", "str"),
             F("associated_matterport_scan_path", "str")>>
      [] cls = "Annotations" ->
           <<F("university_video_id", "str"), F("start_seconds", "float"),
             F("end_seconds", "float"), F("annotation_data", "dict")>>
      [] cls = "CaptureMetadataEgoExo" ->
           <<F("university_capture_id", "str"), F("university_video_folder_path", "str"),
             F("number_videos", "int"), F("number_takes", "int"),
             F("post_surveys_relative_path", "str"), F("physical_setting_id", "int"),
             F("start_date_recorded_utc", "datetime"), F("additional_metadata", "dict")>>
      [] cls = "TakeMetadataEgoExo" ->
           <<F("university_capture_id", "str"), F("take_id", "str"),
             F("scenario_id", "int"), F("is_narrated", "bool"), F("is_dropped", "bool"),
             F("take_start_seconds_aria", "float"), F("object_ids", "List[str]"),
             F("recording_participant_id", "str"), F("additional_metadata", "dict")>>
      [] cls = "VideoMetadataEgoExo" ->
           <<F("university_capture_id", "str"), F("university_video_id", "str"),
             F("number_video_components", "int"), F("is_ego", "str"),
             F("has_walkaround", "str"), F("includes_audio", "str"),
             F("device_type", "int"), F("device_id", "str"),
             F("video_device_settings", "dict"), F("additional_metadata", "dict"),
             F("is_redacted", "bool")>>
      [] cls = "VideoComponentFileEgoExo" ->
           <<F("university_capture_id", "str"), F("university_video_id", "str"),
             F("video_component_relative_path", "str"), F("component_index", "int"),
             F("is_redacted", "bool")>>
      [] cls = "ColmapMetadataEgoExo" ->
           <<F("university_capture_id", "str"), F("colmap_configuration_id", "str"),
             F("config_relative_path", "str"), F("colmap_ran", "bool"),
             F("was_inspected", "bool"), F("is_final_configuration", "bool"),
             F("version", "str"), F("notes", "str")>>
      [] cls = "ObjectMetadataEgoExo" ->
           <<F("university_object_id", "str"), F("object_name", "str"),
             F("object_relative_path", "str"), F("physical_setting_id", "str"),
             F("additional_metadata", "dict")>>
      [] cls = "ParticipantMetadataEgoExo" ->
           <<F("participant_id", "str"), F("participant_metadata", "dict"),
             F("collection_date", "datetime"), F("pre_survey_data", "dict")>>
      [] cls = "PhysicalSettingEgoExo" ->
           <<F("setting_id", "str"), F("name", "str")>>
      [] cls = "ExtraDataEgoExo" ->
           <<F("university_capture_id", "str"), F("take_id", "str"),
             F("annotation_data", "dict")>>

FieldNames(cls) == {Fields(cls)[k].name : k \in DOMAIN Fields(cls)}

\* ---------------------------------------------------------------------------
\* default_decode
\* ---------------------------------------------------------------------------
\* A decoded value is [t, s, n]: t the Python type of the value, s its text
\* and n its number; a raised exception is a value whose t is the exception.
V(t, str, num) == [t |-> t, s |-> str, n |-> num]

VNone == V("None", "", 0)
VTrue == V("bool", "", 1)
VFalse == V("bool", "", 0)

Raised(v) == v.t \in {"ValueError", "JSONDecodeError", "IndexError"}

\* the cell texts of the model
Vocabulary ==
    {"", "0", "1", "01", "2", "1.5", "x", "a", "b", "False", "false", "true",
     "[]", "[1]", "{}",
     "2020-01-02 03:04:05", "2020-01-02 03:04:05.678"}

\* int(value)
py_int(value) ==
    CASE value = "0" -> V("int", "", 0)
      [] value \in {"1", "01"} -> V("int", "", 1)
      [] value = "2" -> V("int", "", 2)
      [] OTHER -> V("ValueError", "", 0)

\* float(value); the value is held by its repr
py_float(value) ==
    CASE value = "0" -> V("float", "0.0", 0)
      [] value \in {"1", "01"} -> V("float", "1.0", 0)
      [] value = "2" -> V("float", "2.0", 0)
      [] value = "1.5" -> V("float", "1.5", 0)
      [] OTHER -> V("ValueError", "", 0)

\* json.loads(value), for a non-empty value
json_loads(value) ==
    CASE value = "0" -> V("int", "", 0)
      [] value = "1" -> V("int", "", 1)
      [] value = "2" -> V("int", "", 2)
      [] value = "1.5" -> V("float", "1.5", 0)
      [] value = "true" -> VTrue
      [] value = "false" -> VFalse
      [] value = "[]" -> V("list", "[]", 0)
      [] value = "[1]" -> V("list", "[1]", 0)
      [] value = "{}" -> V("dict", "{}", 0)
      [] OTHER -> V("JSONDecodeError", "", 0)

\* datetime.strptime(value.split(".")[0], DEFAULT_DATE_FORMAT_STR), line 267
py_strptime(value) ==
    IF value \in {"2020-01-02 03:04:05", "2020-01-02 03:04:05.678"}
    THEN V("datetime", "2020-01-02 03:04:05", 0)
    ELSE V("ValueError", "", 0)

PyBoolParsed(value) == IF value \in {"False", "false", "0"} THEN VFalse ELSE VTrue

\* bool(value) of a non-empty string, lines 271-274: any non-empty string is truthy
py_bool(value) == VTrue

\* lines 256-274; a datatype none of the branches names (typing.List[int],
\* typing.List[str]) falls off the end of the function, which returns None
default_decode(value, datatype) ==
    CASE datatype \in {"dict", "defaultdict"} ->
           IF value = "" THEN V("dict", "{}", 0) ELSE json_loads(value)
      [] datatype = "list" ->
           IF value = "" THEN V("list", "[]", 0) ELSE json_loads(value)
      [] datatype = "datetime" ->
           IF value # "" THEN py_strptime(value) ELSE V("datetime", "1900-01-01 00:00:00", 0)
      [] datatype = "int" -> IF value = "" THEN VNone ELSE py_int(value)
      [] datatype = "float" -> IF value = "" THEN VNone ELSE py_float(value)
      [] datatype = "str" -> IF value = "" THEN VNone ELSE V("str", value, 0)
      [] datatype = "bool" -> IF value = "" THEN VNone ELSE py_bool(value)
      [] OTHER -> VNone

\* ---- one call of default_decode, as the loader makes it for a field ----
Classes ==
    {"Device", "VideoMetadata", "VideoComponentFile", "AuxiliaryVideoComponentDataFile",
     "Particpant", "SynchronizedVideos", "PhysicalSetting", "Annotations",
     "CaptureMetadataEgoExo", "TakeMetadataEgoExo", "VideoMetadataEgoExo",
     "VideoComponentFileEgoExo", "ColmapMetadataEgoExo", "ObjectMetadataEgoExo",
     "ParticipantMetadataEgoExo", "PhysicalSettingEgoExo", "ExtraDataEgoExo"}

InitDecode ==
    /\ dsIdle
    /\ csvIdle
    /\ mfIdle
    /\ \E cls \in Classes :
       \E k \in DOMAIN Fields(cls) :
       \E value \in Vocabulary :
           decoding = [cls |-> cls, field |-> Fields(cls)[k].name,
                  datatype |-> Fields(cls)[k].type, value |-> value,
                  called |-> FALSE, result |-> VNone]

\* meta["decode_fn"](line[meta["column_index"]], meta["type"]), lines 343-346
Decode ==
    /\ ~decoding.called
    /\ decoding.cls # ""
    /\ decoding' = [decoding EXCEPT
                        !.called = TRUE,
                        !.result = default_decode(decoding.value, decoding.datatype)]
    /\ UNCHANGED <<ds_vars, csv_vars, mf_vars>>

NextDecode == Decode

SpecDecode == InitDecode /\ [][NextDecode]_vars

\* ---------------------------------------------------------------------------
\* load_dataclass_dict_from_csv
\* ---------------------------------------------------------------------------
NoColumn == 0 - 1    \* column_index.get(f.name, None) of a column the CSV lacks

\* line 312: {header: i for i, header in enumerate(next(reader))}; a name
\* that occurs twice keeps its last position
ColumnIndex(header) ==
    [h \in Range(header) |->
        (CHOOSE i \in DOMAIN header :
            header[i] = h /\ \A j \in DOMAIN header : header[j] = h => j <= i) - 1]

\* lines 314-325, the column and the type of a field
FieldColumn(column_index, name) ==
    IF name \in DOMAIN column_index THEN column_index[name] ELSE NoColumn

SchemaMatchesOneWay(csv_names, dn_names) == dn_names \subseteq csv_names

\* line 328
SchemaMatches(csv_names, dn_names) == csv_names = dn_names

NoError ==
    [kind |-> "", missing |-> {}, additional |-> {}, field |-> "", key |-> VNone]

\* lines 326-338
SchemaCheck(header, cls) ==
    LET csv_names == Range(header)
        dn_names == FieldNames(cls)
    IN  IF SchemaMatches(csv_names, dn_names)
        THEN NoError
        ELSE [NoError EXCEPT !.kind = "SchemaMismatch",
                             !.missing = dn_names \ csv_names,
                             !.additional = csv_names \ dn_names]

\* lines 341-349: the fields are decoded in declaration order, and the first
\* cell that is missing from the line or does not decode raises
RECURSIVE DecodeFields(_, _, _, _, _)
DecodeFields(line, fields, column_index, k, obj) ==
    IF k > Len(fields) THEN [raised |-> "", obj |-> obj]
    ELSE LET col == FieldColumn(column_index, fields[k].name)
             v == IF col + 1 \in DOMAIN line
                  THEN default_decode(line[col + 1], fields[k].type)
                  ELSE V("IndexError", "", 0)
         IN  IF Raised(v) THEN [raised |-> v.t, obj |-> <<>>]
             ELSE DecodeFields(line, fields, column_index, k + 1,
                               (fields[k].name :> v) @@ obj)

DecodeLine(line, cls, column_index) ==
    DecodeFields(line, Fields(cls), column_index, 1, <<>>)

OverwriteRecord(output, dict_key, obj) ==
    [k \in DOMAIN output \cup {dict_key} |-> IF k = dict_key THEN <<obj>> ELSE output[k]]

\* line 351: output[dict_key].append(obj), output a defaultdict(list)
AppendRecord(output, dict_key, obj) ==
    [k \in DOMAIN output \cup {dict_key} |->
        IF k = dict_key
        THEN (IF k \in DOMAIN output THEN output[k] ELSE <<>>) \o <<obj>>
        ELSE output[k]]

DuplicateCheckOffByOne(unique_per_key, entries) == unique_per_key /\ Len(entries) > 2

\* lines 352-353
DuplicateCheck(unique_per_key, entries) == unique_per_key /\ Len(entries) # 1

\* lines 340-356, one iteration of the loop over the reader
RowStep(output, line, cls, column_index, dict_key_field, unique_per_key) ==
    LET dec == DecodeLine(line, cls, column_index)
    IN  IF dec.raised # ""
        THEN [output |-> output, error |-> [NoError EXCEPT !.kind = dec.raised]]
        ELSE LET dict_key == dec.obj[dict_key_field]
                 out == AppendRecord(output, dict_key, dec.obj)
             IN  IF DuplicateCheck(unique_per_key, out[dict_key])
                 THEN [output |-> out,
                       error |-> [NoError EXCEPT !.kind = "DuplicateKey",
                                                 !.field = dict_key_field,
                                                 !.key = dict_key]]
                 ELSE [output |-> out, error |-> NoError]

\* what the call gives its caller: a raised error carries no table
Returned(output) == [status |-> "ok", table |-> output, error |-> NoError]
RaisedError(error) == [status |-> "error", table |-> <<>>, error |-> error]
NotReturned == [status |-> "none", table |-> <<>>, error |-> NoError]

\* lines 340-357 over the lines of a whole file
RECURSIVE LoadRows(_, _, _, _, _, _, _)
LoadRows(lines, k, output, cls, column_index, dict_key_field, unique_per_key) ==
    IF k > Len(lines) THEN Returned(output)
    ELSE LET step == RowStep(output, lines[k], cls, column_index, dict_key_field,
                             unique_per_key)
         IN  IF step.error.kind # "" THEN RaisedError(step.error)
             ELSE LoadRows(lines, k + 1, step.output, cls, column_index,
                           dict_key_field, unique_per_key)

\* lines 309-357 on a file with the given header and data lines
load_dataclass_dict_from_csv(file, cls, dict_key_field, unique_per_key) ==
    LET check == SchemaCheck(file.header, cls)
    IN  IF check.kind # "" THEN RaisedError(check)
        ELSE LoadRows(file.lines, 1, <<>>, cls, ColumnIndex(file.header),
                      dict_key_field, unique_per_key)

\* ---- one run of the loader, a line at a time ----
\* the calls of lines 374-379 and 539-544, with either uniqueness policy
CsvCalls ==
    {[dataclass_class |-> "Device", dict_key_field |-> "device_id"],
     [dataclass_class |-> "PhysicalSettingEgoExo", dict_key_field |-> "setting_id"]}

CsvCells == {"", "1", "01", "x"}

\* the header rows: distinct column names, the fields' and one the schema lacks
ColumnNames(cls) == FieldNames(cls) \cup {"extra"}

Headers(cls) ==
    UNION {{h \in [1..n -> ColumnNames(cls)] :
               \A j, k \in 1..n : h[j] = h[k] => j = k}
           : n \in 0..Cardinality(ColumnNames(cls))}

\* the data lines under a header: a cell per column, or the last cell missing
LinesUnder(header) ==
    UNION {[1..n -> CsvCells] : n \in {Len(header), Len(header) - 1} \cap Nat}

InitCsv ==
    /\ dsIdle
    /\ mfIdle
    /\ decIdle
    /\ csv_pc = "header"
    /\ \E call \in CsvCalls, unique \in BOOLEAN :
           csv_args = [dataclass_class |-> call.dataclass_class,
                       dict_key_field |-> call.dict_key_field,
                       unique_per_key |-> unique]
    /\ \E n \in 0..MaxRows : csv_file = [n_lines |-> n, header |-> <<>>, lines |-> <<>>]
    /\ csv_loader = [column_index |-> <<>>, output |-> <<>>]
    /\ csv_result = NotReturned

\* lines 311-338: read the header row and check it against the schema
ReadHeader ==
    /\ csv_pc = "header"
    /\ \E header \in Headers(csv_args.dataclass_class) :
        LET check == SchemaCheck(header, csv_args.dataclass_class)
        IN  /\ csv_file' = [csv_file EXCEPT !.header = header]
            /\ csv_loader' = [csv_loader EXCEPT !.column_index = ColumnIndex(header)]
            /\ IF check.kind # ""
               THEN csv_pc' = "done" /\ csv_result' = RaisedError(check)
               ELSE csv_pc' = "rows" /\ UNCHANGED csv_result
    /\ UNCHANGED csv_args
    /\ UNCHANGED <<ds_vars, mf_vars, dec_vars>>

\* lines 340-356: the reader yields the next line, which is decoded and filed
ProcessRow ==
    /\ csv_pc = "rows"
    /\ Len(csv_file.lines) < csv_file.n_lines
    /\ \E line \in LinesUnder(csv_file.header) :
        LET step == RowStep(csv_loader.output, line, csv_args.dataclass_class,
                            csv_loader.column_index, csv_args.dict_key_field,
                            csv_args.unique_per_key)
        IN  /\ csv_file' = [csv_file EXCEPT !.lines = Append(@, line)]
            /\ csv_loader' = [csv_loader EXCEPT !.output = step.output]
            /\ IF step.error.kind # ""
               THEN csv_pc' = "done" /\ csv_result' = RaisedError(step.error)
               ELSE UNCHANGED <<csv_pc, csv_result>>
    /\ UNCHANGED csv_args
    /\ UNCHANGED <<ds_vars, mf_vars, dec_vars>>

\* line 357: the reader is exhausted
ReturnOutput ==
    /\ csv_pc = "rows"
    /\ Len(csv_file.lines) = csv_file.n_lines
    /\ csv_pc' = "done"
    /\ csv_result' = Returned(csv_loader.output)
    /\ UNCHANGED <<csv_args, csv_file, csv_loader>>
    /\ UNCHANGED <<ds_vars, mf_vars, dec_vars>>

NextCsv == ReadHeader \/ ProcessRow \/ ReturnOutput

SpecCsv == InitCsv /\ [][NextCsv]_vars

\* ---------------------------------------------------------------------------
\* load_manifest and load_egoexo_manifest
\* ---------------------------------------------------------------------------
T(field, files, cls, key, unique, required) ==
    [field |-> field, files |-> files, cls |-> cls, key |-> key,
     unique |-> unique, required |-> required]

\* the tables of load_manifest in load order, lines 590-675
CoreTables ==
    <<T("videos", <<"video_metadata.csv">>, "VideoMetadata",
        "university_video_id", TRUE, TRUE),
      T("video_components", <<"video_component_file.csv">>, "VideoComponentFile",
        "university_video_id", FALSE, TRUE),
      T("aux_components", <<"auxiliary_video_component_data_file.csv">>,
        "AuxiliaryVideoComponentDataFile", "university_video_id", FALSE, FALSE),
      T("participants",
        <<"participant_data.csv", "participant.csv", "participant_metadata.csv">>,
        "Particpant", "participant_id", TRUE, FALSE),
      T("sync_videos", <<"synchronized_videos.csv">>, "SynchronizedVideos",
        "video_grouping_id", TRUE, FALSE),
      T("physical_setting", <<"physical_setting.csv">>, "PhysicalSetting",
        "setting_id", TRUE, FALSE),
      T("annotations", <<"annotations.csv">>, "Annotations",
        "university_video_id", FALSE, FALSE)>>

\* the tables of load_egoexo_manifest in load order, lines 473-566
EgoExoTables ==
    <<T("captures", <<"capture_metadata.csv">>, "CaptureMetadataEgoExo",
        "university_capture_id", TRUE, TRUE),
      T("takes", <<"take_metadata.csv">>, "TakeMetadataEgoExo",
        "university_capture_id", FALSE, TRUE),
      T("videos", <<"video_metadata.csv">>, "VideoMetadataEgoExo",
        "university_capture_id", FALSE, TRUE),
      T("video_components", <<"video_component_file.csv">>, "VideoComponentFileEgoExo",
        "university_capture_id", FALSE, TRUE),
      T("colmap", <<"colmap_metadata.csv">>, "ColmapMetadataEgoExo",
        "university_capture_id", FALSE, FALSE),
      T("objects", <<"object_metadata.csv">>, "ObjectMetadataEgoExo",
        "university_object_id", TRUE, FALSE),
      T("physical_setting", <<"physical_setting.csv">>, "PhysicalSettingEgoExo",
        "setting_id", TRUE, FALSE),
      T("participants", <<"participant_metadata.csv">>, "ParticipantMetadataEgoExo",
        "participant_id", TRUE, FALSE),
      T("extra_data", <<"extra_data.csv">>, "ExtraDataEgoExo",
        "university_capture_id", FALSE, FALSE)>>

Tables(schema) == IF schema = "core" THEN CoreTables ELSE EgoExoTables

FileNames(schema) == UNION {Range(Tables(schema)[k].files) : k \in DOMAIN Tables(schema)}

\* a local variable of the assembler: None, or a key -> list-of-records dict
NoneMarker == [none |-> TRUE, table |-> <<>>]
EmptyDict == [none |-> FALSE, table |-> <<>>]
Loaded(table) == [none |-> FALSE, table |-> table]

AbsentValueAlwaysEmpty(schema) == EmptyDict

\* what an optional table's variable is set to before its file is looked for:
\* {} in load_manifest (lines 614, 625, 643, 655, 667), None in
\* load_egoexo_manifest (lines 515, 526, 537, 548, 559)
AbsentValue(schema) == IF schema = "core" THEN EmptyDict ELSE NoneMarker

CheckFileExistsSkipped(file_name, files) == TRUE

\* _check_file_exists, lines 467-471 and 584-588
check_file_exists(file_name, files) == file_name \in files

\* the last of the candidate names that is in the directory, or <<>>
RECURSIVE LastPresent(_, _)
LastPresent(candidates, files) ==
    IF candidates = <<>> THEN <<>>
    ELSE IF candidates[Len(candidates)] \in files THEN <<candidates[Len(candidates)]>>
    ELSE LastPresent(SubSeq(candidates, 1, Len(candidates) - 1), files)

\* the first of the candidate names that is in the directory (lines 626-639),
\* or <<>> when none is
RECURSIVE FirstPresent(_, _)
FirstPresent(candidates, files) ==
    IF candidates = <<>> THEN <<>>
    ELSE IF candidates[1] \in files THEN <<candidates[1]>>
    ELSE FirstPresent(Tail(candidates), files)

\* a manifest field: None, or a dict whose entry is the loader's list
\* (list = TRUE) or a single record (list = FALSE, items = <<record>>)
KeyToList(v) ==
    [none |-> v.none,
     map |-> [k \in DOMAIN v.table |-> [list |-> TRUE, items |-> v.table[k]]]]

\* {k: vs[0] for k, vs in d.items()}, lines 679-682
KeyToFirst(v) ==
    [none |-> v.none,
     map |-> [k \in DOMAIN v.table |-> [list |-> FALSE, items |-> <<v.table[k][1]>>]]]

\* the fields the return statement unwraps: lines 679-682 of load_manifest,
\* none in lines 568-578 of load_egoexo_manifest
UnwrappedFields(schema) ==
    IF schema = "core"
    THEN {"videos", "participants", "sync_videos", "physical_setting"}
    ELSE {}

\* Manifest(...) of lines 677-687 and ManifestEgoExo(...) of lines 568-578
BuildManifest(schema, loaded) ==
    [f \in DOMAIN loaded |->
        IF f \in UnwrappedFields(schema) THEN KeyToFirst(loaded[f]) ELSE KeyToList(loaded[f])]

\* ---- the files a directory may hold for a table ----
\* a data line: the key cell, a second cell, and empty cells for the rest
DataLine(cls, key_cell, second_cell) ==
    [k \in DOMAIN Fields(cls) |->
        IF k = 1 THEN key_cell ELSE IF k = 2 THEN second_cell ELSE ""]

HeaderOf(cls) == [k \in DOMAIN Fields(cls) |-> Fields(cls)[k].name]

\* two rows with different keys; two rows sharing a key; no rows; a header
\* that lacks the last field
FileContents(cls) ==
    {[header |-> HeaderOf(cls),
      lines |-> <<DataLine(cls, "a", "1"), DataLine(cls, "b", "2")>>],
     [header |-> HeaderOf(cls),
      lines |-> <<DataLine(cls, "a", "1"), DataLine(cls, "a", "2")>>],
     [header |-> HeaderOf(cls), lines |-> <<>>],
     [header |-> SubSeq(HeaderOf(cls), 1, Len(Fields(cls)) - 1),
      lines |-> <<SubSeq(DataLine(cls, "a", "1"), 1, Len(Fields(cls)) - 1)>>]}

NoManifestError == [kind |-> "", file |-> ""]
NoManifestYet == [status |-> "none", manifest |-> <<>>, error |-> NoManifestError]
ManifestRaised(kind, file) ==
    [status |-> "error", manifest |-> <<>>, error |-> [kind |-> kind, file |-> file]]
ManifestReturned(m) == [status |-> "ok", manifest |-> m, error |-> NoManifestError]

InitManifest ==
    /\ dsIdle
    /\ csvIdle
    /\ decIdle
    /\ mf_schema \in {"core", "egoexo"}
    /\ available_files \in SUBSET FileNames(mf_schema)
    /\ mf_pc = 1
    /\ mf_loaded = <<>>
    /\ mf_reads = <<>>
    /\ mf_result = NoManifestYet

Running == mf_pc \in DOMAIN Tables(mf_schema) /\ mf_result.status = "none"

\* the load of one table from the file of that name: the error ends the
\* assembly, the table is kept in the table's variable
LoadFrom(t, file_name) ==
    \E file \in FileContents(t.cls) :
        LET res == load_dataclass_dict_from_csv(file, t.cls, t.key, t.unique)
        IN  /\ mf_reads' = Append(mf_reads, [file |-> file_name, csv |-> file])
            /\ IF res.status = "ok"
               THEN /\ mf_loaded' = (t.field :> Loaded(res.table)) @@ mf_loaded
                    /\ mf_pc' = mf_pc + 1
                    /\ UNCHANGED mf_result
               ELSE /\ mf_result' = ManifestRaised(res.error.kind, file_name)
                    /\ UNCHANGED <<mf_loaded, mf_pc>>

\* a required table: lines 473-511 and 590-609
LoadRequired ==
    /\ Running
    /\ LET t == Tables(mf_schema)[mf_pc]
       IN  /\ t.required
           /\ IF check_file_exists(t.files[1], available_files)
              THEN LoadFrom(t, t.files[1])
              ELSE /\ mf_result' = ManifestRaised("MissingFile", t.files[1])
                   /\ UNCHANGED <<mf_loaded, mf_pc, mf_reads>>
    /\ UNCHANGED <<mf_schema, available_files>>
    /\ UNCHANGED <<ds_vars, csv_vars, dec_vars>>

\* an optional table with one file name: lines 513-566, 613-622 and 642-675
LoadOptional ==
    /\ Running
    /\ LET t == Tables(mf_schema)[mf_pc]
       IN  /\ ~t.required
           /\ Len(t.files) = 1
           /\ IF t.files[1] \in available_files
              THEN LoadFrom(t, t.files[1])
              ELSE /\ mf_loaded' = (t.field :> AbsentValue(mf_schema)) @@ mf_loaded
                   /\ mf_pc' = mf_pc + 1
                   /\ UNCHANGED <<mf_reads, mf_result>>
    /\ UNCHANGED <<mf_schema, available_files>>
    /\ UNCHANGED <<ds_vars, csv_vars, dec_vars>>

\* the participant table, looked for under three names: lines 624-639
LoadFirstCandidate ==
    /\ Running
    /\ LET t == Tables(mf_schema)[mf_pc]
           found == FirstPresent(t.files, available_files)
       IN  /\ ~t.required
           /\ Len(t.files) > 1
           /\ IF found # <<>>
              THEN LoadFrom(t, found[1])
              ELSE /\ mf_loaded' = (t.field :> AbsentValue(mf_schema)) @@ mf_loaded
                   /\ mf_pc' = mf_pc + 1
                   /\ UNCHANGED <<mf_reads, mf_result>>
    /\ UNCHANGED <<mf_schema, available_files>>
    /\ UNCHANGED <<ds_vars, csv_vars, dec_vars>>

\* the return statement: lines 568-578 and 677-687
ReturnManifest ==
    /\ mf_pc = Len(Tables(mf_schema)) + 1
    /\ mf_result.status = "none"
    /\ mf_result' = ManifestReturned(BuildManifest(mf_schema, mf_loaded))
    /\ UNCHANGED <<mf_pc, mf_schema, available_files, mf_loaded, mf_reads>>
    /\ UNCHANGED <<ds_vars, csv_vars, dec_vars>>

NextManifest == LoadRequired \/ LoadOptional \/ LoadFirstCandidate \/ ReturnManifest

SpecManifest == InitManifest /\ [][NextManifest]_vars

\* ---------------------------------------------------------------------------
\* Properties of the lazy concatenated index
\* ---------------------------------------------------------------------------
\* the positions whose handle is populated
Opened == {idx \in DOMAIN conts : conts[idx].c # None}

InRange(i) == 0 <= i /\ i < length(fs_cumsum)

\* C1: a call item_at(i) with 0 <= i < length() returns the item at local index
\* i - cumulative[c] of the container at sorted-path position c, where c is the
\* position with cumulative[c] <= i < cumulative[c+1]; zero-size containers are
\* skipped, and with sizes [3, 5, 2] item_at(3) is container 1 local 0 and
\* item_at(9) is container 2 local 1.
C1_ItemAtDelegates ==
    (last.status # "none" /\ InRange(last.i)) =>
        /\ last.status = "ok"
        /\ last.cont_idx \in 0..(Len(paths) - 1)
        /\ fs_cumsum[last.cont_idx + 1] <= last.i
        /\ last.i < fs_cumsum[last.cont_idx + 2]
        /\ last.idx = last.i - fs_cumsum[last.cont_idx + 1]
        /\ last.item = <<paths[last.cont_idx + 1], last.idx>>
        /\ \A k \in 1..(Len(paths) - 1) : paths[k] <= paths[k + 1]
        /\ last.c # None /\ last.c = conts[last.cont_idx].c
        /\ (fs_cumsum = <<0, 3, 8, 10>> /\ last.i = 3) =>
               (last.cont_idx = 1 /\ last.idx = 0)
        /\ (fs_cumsum = <<0, 3, 8, 10>> /\ last.i = 9) =>
               (last.cont_idx = 2 /\ last.idx = 1)

\* C1 witness: with sizes [3, 5, 2], item_at(3) has resolved to container 1, local 0.
C1_Witness ==
    /\ fs_cumsum = <<0, 3, 8, 10>>
    /\ last.status = "ok" /\ last.i = 3
    /\ last.cont_idx = 1 /\ last.idx = 0

\* C2: a call item_at(i) with i < 0 or i >= length() fails with an error (the
\* KeyError of the container lookup) and returns no item of any container.
C2_OutOfRangeFails ==
    (last.status # "none" /\ ~InRange(last.i)) =>
        /\ last.status = "KeyError"
        /\ last.item = <<>>
        /\ last.c = None
        /\ ~last.opened

\* C2 witness: a negative index was refused by a dataset that holds items.
C2_Witness ==
    /\ length(fs_cumsum) > 0
    /\ last.status = "KeyError"
    /\ last.i < 0

\* C3: a container position is opened at most once: video_class is
\* constructed at most once per position, a populated handle is never replaced
\* or reset, and an access returns the item through the cached handle.
C3_OpenedAtMostOnce ==
    /\ [](\A idx \in DOMAIN conts :
              /\ opens[idx] <= 1
              /\ conts[idx].c # None => opens[idx] = 1)
    /\ [](last.status = "ok" => last.c = conts[last.cont_idx].c)
    /\ [][\A idx \in DOMAIN conts :
              conts[idx].c # None => (idx \in DOMAIN conts' /\ conts'[idx] = conts[idx])]_vars

\* C3 witness: a container opened lazily by an earlier call has been accessed
\* again, through the handle that call cached.
C3_Witness ==
    /\ ds_mode = "precomputed"
    /\ last.status = "ok"
    /\ ~last.opened
    /\ opens[last.cont_idx] = 1
    /\ last.c = conts[last.cont_idx].c

\* C4: built from a precomputed path -> item-count mapping, the dataset opens
\* no container during construction, and the containers with a populated
\* handle are exactly those owning an index that item_at has returned an
\* item for.
C4_LazyOpenedAreServed ==
    ds_mode = "precomputed" =>
        /\ Opened = served
        /\ \A idx \in DOMAIN conts : idx \notin served => opens[idx] = 0
        /\ last.status = "none" => Opened = {}

\* C4 witness: after some calls one container is open and another is not.
C4_Witness ==
    /\ ds_mode = "precomputed"
    /\ served # {}
    /\ served # DOMAIN conts
    /\ \E idx \in DOMAIN conts : idx \notin served /\ fs_cumsum[idx + 2] > fs_cumsum[idx + 1]

\* ---------------------------------------------------------------------------
\* Properties of the schema-checked table loader
\* ---------------------------------------------------------------------------
HeaderRead == csv_pc \in {"rows", "done"}

HeaderOk == Range(csv_file.header) = FieldNames(csv_args.dataclass_class)

\* the column of the header that carries the field's name
PosOf(name) == CHOOSE i \in DOMAIN csv_file.header : csv_file.header[i] = name

TypeOf(cls, name) == (CHOOSE f \in Range(Fields(cls)) : f.name = name).type

CellValue(k, name) ==
    default_decode(csv_file.lines[k][PosOf(name)], TypeOf(csv_args.dataclass_class, name))

\* data line k has a cell for every field, and every cell decodes
RowDecodes(k) ==
    \A name \in FieldNames(csv_args.dataclass_class) :
        /\ PosOf(name) \in DOMAIN csv_file.lines[k]
        /\ ~Raised(CellValue(k, name))

RowObj(k) == [name \in FieldNames(csv_args.dataclass_class) |-> CellValue(k, name)]

RowKey(k) == CellValue(k, csv_args.dict_key_field)

\* C5: with unique_per_key, once a data row decodes to the key of an earlier
\* row the loader raises the integrity error naming the key field and the key
\* at that row, reads no later row and returns no table.
C5_DuplicateKeyRaises ==
    (HeaderRead /\ HeaderOk /\ csv_args.unique_per_key) =>
        \A j \in DOMAIN csv_file.lines :
            ( /\ \A k \in 1..j : RowDecodes(k)
              /\ \E i \in 1..(j - 1) : RowKey(i) = RowKey(j) ) =>
                /\ csv_pc = "done"
                /\ Len(csv_file.lines) = j
                /\ csv_result.status = "error"
                /\ csv_result.error.kind = "DuplicateKey"
                /\ csv_result.error.field = csv_args.dict_key_field
                /\ csv_result.error.key = RowKey(j)
                /\ csv_result.table = <<>>

\* C5 witness: the second row repeated the key of the first (from a different
\* cell text), the error was raised, and the file's third row was never read.
C5_Witness ==
    /\ csv_pc = "done"
    /\ csv_result.error.kind = "DuplicateKey"
    /\ Len(csv_file.lines) = 2
    /\ csv_file.n_lines > 2
    /\ csv_file.lines[1][PosOf(csv_args.dict_key_field)]
           # csv_file.lines[2][PosOf(csv_args.dict_key_field)]

\* C6: the loader fails with the schema-mismatch error exactly when the set of
\* header column names differs from the set of field names; it then has read no
\* data row, and the error lists the missing fields and the additional columns.
C6_SchemaMismatchIff ==
    HeaderRead =>
        LET cols == Range(csv_file.header)
            names == FieldNames(csv_args.dataclass_class)
            mismatch == \/ \E c \in cols : c \notin names
                        \/ \E f \in names : f \notin cols
        IN  /\ (csv_result.error.kind = "SchemaMismatch") <=> mismatch
            /\ mismatch =>
                /\ csv_pc = "done"
                /\ csv_result.status = "error"
                /\ csv_result.table = <<>>
                /\ csv_file.lines = <<>>
                /\ csv_loader.output = <<>>
                /\ csv_result.error.missing = {f \in names : f \notin cols}
                /\ csv_result.error.additional = {c \in cols : c \notin names}

\* C6 witness: a header that lacks a field and has an unknown column was
\* refused, on a file that has data rows.
C6_Witness ==
    /\ csv_pc = "done"
    /\ csv_result.error.kind = "SchemaMismatch"
    /\ csv_result.error.missing # {}
    /\ csv_result.error.additional # {}
    /\ csv_file.n_lines > 0

KeysDistinct ==
    \A i, j \in DOMAIN csv_file.lines : RowKey(i) = RowKey(j) => i = j

Done == mf_result.status # "none"

WasRead(file_name) == \E k \in DOMAIN mf_reads : mf_reads[k].file = file_name

\* what the loader makes of the content read from the file of that name
LoadOf(t, file_name) ==
    LET k == CHOOSE k \in DOMAIN mf_reads : mf_reads[k].file = file_name
    IN  load_dataclass_dict_from_csv(mf_reads[k].csv, t.cls, t.key, t.unique)

Present(t) == \E k \in DOMAIN t.files : t.files[k] \in available_files

\* the table is in the directory and the file looked at for it loads
LoadsOk(t) ==
    /\ Present(t)
    /\ \E k \in DOMAIN t.files : WasRead(t.files[k]) /\ LoadOf(t, t.files[k]).status = "ok"

\* C8 as stated: the absence of any required table makes the assembly raise the
\* missing-resource error naming that very file, whatever the other tables hold.
C8_Original ==
    Done =>
        \A k \in DOMAIN Tables(mf_schema) :
            LET t == Tables(mf_schema)[k]
            IN  (t.required /\ t.files[1] \notin available_files) =>
                    /\ mf_result.status = "error"
                    /\ mf_result.manifest = <<>>
                    /\ mf_result.error = [kind |-> "MissingFile", file |-> t.files[1]]

\* C8 amended: the absence of a required table makes the assembly raise and
\* return no manifest; the error is the missing-resource error naming that file
\* when every table loaded before it is present and loads without error.
C8_MissingRequiredRaises ==
    Done =>
        \A k \in DOMAIN Tables(mf_schema) :
            LET t == Tables(mf_schema)[k]
            IN  (t.required /\ t.files[1] \notin available_files) =>
                    /\ mf_result.status = "error"
                    /\ mf_result.manifest = <<>>
                    /\ (\A j \in 1..(k - 1) : LoadsOk(Tables(mf_schema)[j])) =>
                           mf_result.error = [kind |-> "MissingFile", file |-> t.files[1]]

\* C8 witness: the required tables before video_component_file.csv were loaded,
\* that file is absent, and the error names it.
C8_Witness ==
    /\ Done
    /\ mf_reads # <<>>
    /\ "video_component_file.csv" \notin available_files
    /\ mf_result.error = [kind |-> "MissingFile", file |-> "video_component_file.csv"]

\* C9: when the required tables are present and every file looked at loads,
\* the assembly succeeds whichever optional tables are absent; the field of an
\* absent optional table is the empty mapping (core) or None (ego-exo), and
\* every other field holds the keys and records of its own file.
C9_AbsentOptionalIsEmpty ==
    ( /\ Done
      /\ \A k \in DOMAIN Tables(mf_schema) :
             LET t == Tables(mf_schema)[k]
             IN  /\ t.required => Present(t)
                 /\ \A n \in DOMAIN t.files :
                        WasRead(t.files[n]) => LoadOf(t, t.files[n]).status = "ok" ) =>
        /\ mf_result.status = "ok"
        /\ \A k \in DOMAIN Tables(mf_schema) :
               LET t == Tables(mf_schema)[k]
                   v == mf_result.manifest[t.field]
               IN  IF ~Present(t)
                   THEN /\ v.map = <<>>
                        /\ v.none = (mf_schema = "egoexo")
                   ELSE \E n \in DOMAIN t.files :
                            /\ t.files[n] \in available_files
                            /\ \A m \in 1..(n - 1) : t.files[m] \notin available_files
                            /\ WasRead(t.files[n])
                            /\ ~v.none
                            /\ DOMAIN v.map = DOMAIN LoadOf(t, t.files[n]).table
                            /\ \A key \in DOMAIN v.map :
                                   v.map[key].items = LoadOf(t, t.files[n]).table[key]

\* C9 witness: an ego-exo directory without colmap_metadata.csv and with
\* object_metadata.csv was assembled; colmap is None and objects is populated.
C9_Witness ==
    /\ mf_result.status = "ok"
    /\ mf_schema = "egoexo"
    /\ "colmap_metadata.csv" \notin available_files
    /\ "object_metadata.csv" \in available_files
    /\ mf_result.manifest["colmap"].none
    /\ mf_result.manifest["objects"].map # <<>>

\* C10 as stated: in a returned manifest of either schema every table loaded
\* with the unique-key policy maps a key to the single record, and every
\* multi-keyed table maps a key to the loader's list.
C10_UniqueTablesUnwrapped ==
    mf_result.status = "ok" =>
        \A k \in DOMAIN Tables(mf_schema) :
            LET t == Tables(mf_schema)[k]
                v == mf_result.manifest[t.field]
            IN  \A key \in DOMAIN v.map :
                    IF t.unique
                    THEN ~v.map[key].list /\ Len(v.map[key].items) = 1
                    ELSE v.map[key].list

\* ---------------------------------------------------------------------------
\* Properties of the typed row decoder
\* ---------------------------------------------------------------------------
\* C11 as stated: for a field declared as a mapping or a list (dict,
\* List[int], List[str]) default_decode gives the empty mapping / empty list
\* for the empty string, the JSON-parsed value for a well-formed non-empty
\* string, and never None.
C11_StructuredNeverNone ==
    (decoding.called /\ decoding.datatype \in {"dict", "List[int]", "List[str]"}) =>
        /\ decoding.value = "" =>
               decoding.result = (IF decoding.datatype = "dict"
                                  THEN V("dict", "{}", 0) ELSE V("list", "[]", 0))
        /\ (decoding.value # "" /\ ~Raised(json_loads(decoding.value))) =>
               decoding.result = json_loads(decoding.value)
        /\ decoding.result # VNone

\* C16: for a field declared bool, default_decode gives None for the empty
\* string and True for every non-empty string, "False", "false" and "0"
\* included; it never gives False.
C16_BoolNeverFalse ==
    (decoding.called /\ decoding.datatype = "bool") =>
        /\ decoding.value = "" => decoding.result = VNone
        /\ decoding.value # "" => decoding.result = VTrue
        /\ decoding.result # VFalse

\* C16 witness: the cell "False" of VideoComponentFile.is_redacted decoded to True.
C16_Witness ==
    /\ decoding.called
    /\ decoding.cls = "VideoComponentFile"
    /\ decoding.field = "is_redacted"
    /\ decoding.value = "False"
    /\ decoding.result = VTrue

\* ---------------------------------------------------------------------------
\* Properties of the cumulative offset table and of the effect of item_at
\* ---------------------------------------------------------------------------
\* the item count the dataset goes by for the container at 1-based position k:
\* its length, capped at the configured maximum when the containers were
\* opened to learn it, or the precomputed count
ItemCount(k) ==
    LET n == n_frames[paths[k]]
    IN  IF ds_mode = "eager" /\ max_num_frames_per_video # 0
           /\ max_num_frames_per_video < n
        THEN max_num_frames_per_video
        ELSE n

RECURSIVE ItemsBefore(_)
ItemsBefore(c) == IF c = 0 THEN 0 ELSE ItemsBefore(c - 1) + ItemCount(c)

C13_CappedInBothModes ==
    max_num_frames_per_video # 0 =>
        /\ \A k \in 1..Len(paths) :
               fs_cumsum[k + 1] - fs_cumsum[k]
                   = Min(n_frames[paths[k]], max_num_frames_per_video)
        /\ last.status = "ok" => last.idx < max_num_frames_per_video

\* C15: a call of item_at leaves the table, the path order and length()
\* unchanged and changes at most the cache entry of the owning container, from
\* absent to opened; a call that fails changes nothing of the dataset.
C15_ItemAtFrame ==
    [][ /\ fs_cumsum' = fs_cumsum
        /\ paths' = paths
        /\ length(fs_cumsum') = length(fs_cumsum)
        /\ DOMAIN conts' = DOMAIN conts
        /\ \A idx \in DOMAIN conts :
               conts'[idx] # conts[idx] =>
                   /\ last'.status = "ok"
                   /\ InRange(last'.i)
                   /\ idx = last'.cont_idx
                   /\ fs_cumsum[idx + 1] <= last'.i /\ last'.i < fs_cumsum[idx + 2]
                   /\ conts[idx].c = None
                   /\ conts'[idx].c # None
                   /\ conts'[idx].p = conts[idx].p
        /\ (last'.status # "ok" \/ ~InRange(last'.i)) =>
               /\ conts' = conts
               /\ opens' = opens
               /\ served' = served
      ]_vars

\* C15 witness: a call out of range has failed on a dataset of which one
\* container is open and another is not.
C15_Witness ==
    /\ last.status = "KeyError"
    /\ ds_mode = "precomputed"
    /\ Opened # {}
    /\ Opened # DOMAIN conts

\* ---------------------------------------------------------------------------
\* Properties of the participant table of load_manifest
\* ---------------------------------------------------------------------------
ParticipantFiles == <<"participant_data.csv", "participant.csv", "participant_metadata.csv">>

\* the position of the participant table in the load order
ParticipantPos == CHOOSE k \in DOMAIN CoreTables : CoreTables[k].field = "participants"

\* the candidates opened so far
ParticipantReads ==
    {k \in DOMAIN mf_reads : \E n \in DOMAIN ParticipantFiles :
                                 mf_reads[k].file = ParticipantFiles[n]}

\* C14: load_manifest takes the participant table from the first of
\* participant_data.csv, participant.csv, participant_metadata.csv that the
\* directory holds: only that file is ever opened, its load failure ends the
\* assembly without a look at a later candidate, and with no candidate present
\* the participants table is empty.
C14_FirstCandidateWins ==
    mf_schema = "core" =>
        LET t == CoreTables[ParticipantPos]
            handled == mf_pc > ParticipantPos
        IN  /\ Cardinality(ParticipantReads) <= 1
            /\ \A k \in ParticipantReads :
                   \E n \in DOMAIN ParticipantFiles :
                       /\ mf_reads[k].file = ParticipantFiles[n]
                       /\ ParticipantFiles[n] \in available_files
                       /\ \A m \in 1..(n - 1) : ParticipantFiles[m] \notin available_files
                       /\ IF LoadOf(t, ParticipantFiles[n]).status = "ok"
                          THEN /\ handled
                               /\ mf_loaded["participants"].table
                                      = LoadOf(t, ParticipantFiles[n]).table
                          ELSE /\ ~handled
                               /\ mf_pc = ParticipantPos
                               /\ mf_result.status = "error"
                               /\ mf_result.error.file = ParticipantFiles[n]
                               /\ mf_result.error.kind
                                      = LoadOf(t, ParticipantFiles[n]).error.kind
            /\ handled =>
                   IF \E n \in DOMAIN ParticipantFiles : ParticipantFiles[n] \in available_files
                   THEN ParticipantReads # {}
                   ELSE /\ ParticipantReads = {}
                        /\ mf_loaded["participants"] = EmptyDict
            /\ (mf_result.status = "ok" /\ ParticipantReads = {}) =>
                   mf_result.manifest["participants"] = [none |-> FALSE, map |-> <<>>]

\* C14 witness: with participant_data.csv absent and the two later names
\* present, the manifest was assembled from participant.csv alone.
C14_Witness ==
    /\ mf_schema = "core"
    /\ mf_result.status = "ok"
    /\ "participant_data.csv" \notin available_files
    /\ "participant.csv" \in available_files
    /\ "participant_metadata.csv" \in available_files
    /\ WasRead("participant.csv")
    /\ ~WasRead("participant_metadata.csv")
    /\ mf_result.manifest["participants"].map # <<>>

====
